---------------------------- MODULE Spec2Model ----------------------------
(***************************************************************************)
(* Model of nih_plug_vizia's ResizeHandle widget                           *)
(* (src/nih_plug_vizia/src/widgets/resize_handle.rs): the triangle hit     *)
(* test, the drag state machine of ResizeHandle::event and the scale       *)
(* factor computed while dragging.                                         *)
(*                                                                         *)
(* Floating point values (f32 and f64) are modelled as exact rationals     *)
(* [k |-> "fin", n |-> numerator, d |-> denominator > 0] in lowest terms,  *)
(* together with the IEEE-754 values the code can produce by dividing by a *)
(* zero start coordinate: "inf", "ninf" and "nan".  The coordinates and    *)
(* factors the model draws are small integers and powers of two, for which *)
(* f32 sums and products are exact; quotients are kept exact.              *)
(***************************************************************************)
EXTENDS Integers, Sequences, FiniteSets, TLC

VARIABLES
    bounds,                      \* host: cx.cache.get_bounds(cx.current())
    scale_factor,                \* host: cx.scale_factor()
    captured,                    \* host: pointer captured by this widget
    active,                      \* host: the widget's "active" flag
    hover,                       \* host: the widget's "hover" flag
    drag_active,                 \* ResizeHandle::drag_active
    start_scale_factor,          \* ResizeHandle::start_scale_factor
    start_dpi_factor,            \* ResizeHandle::start_dpi_factor
    start_physical_coordinates,  \* ResizeHandle::start_physical_coordinates
    last,                        \* what the most recent step did (observation)
    canvas                       \* host: what the most recent draw call painted

vars == <<bounds, scale_factor, captured, active, hover, drag_active,
          start_scale_factor, start_dpi_factor, start_physical_coordinates,
          last, canvas>>

widget == <<drag_active, start_scale_factor, start_dpi_factor,
            start_physical_coordinates>>

(***************************************************************************)
(* Bounds of the model.                                                    *)
(***************************************************************************)
MaxCoord == 3

Abs(i) == IF i < 0 THEN 0 - i ELSE i

RECURSIVE GCD(_, _)
GCD(a, b) == IF b = 0 THEN a ELSE GCD(b, a % b)

(***************************************************************************)
(* f32 / f64 values.                                                       *)
(***************************************************************************)
Fin(n, d) ==
    LET g == GCD(Abs(n), d)
    IN  [k |-> "fin", n |-> n \div g, d |-> d \div g]

R(i) == Fin(i, 1)

Inf  == [k |-> "inf",  n |-> 0, d |-> 1]
NInf == [k |-> "ninf", n |-> 0, d |-> 1]
NaN  == [k |-> "nan",  n |-> 0, d |-> 1]
\* "no value": the handler did not compute the quantity
None == [k |-> "none", n |-> 0, d |-> 1]

IsFin(a) == a.k = "fin"

Sign(a) ==
    CASE a.k = "inf"  -> 1
      [] a.k = "ninf" -> 0 - 1
      [] OTHER        -> IF a.n > 0 THEN 1 ELSE IF a.n < 0 THEN 0 - 1 ELSE 0

\* a + b and a - b, finite operands
FAdd(a, b) == Fin(a.n * b.d + b.n * a.d, a.d * b.d)
FSub(a, b) == Fin(a.n * b.d - b.n * a.d, a.d * b.d)

\* a * b (IEEE-754: NaN propagates, infinity * 0 is NaN)
FMul(a, b) ==
    IF a.k = "nan" \/ b.k = "nan" THEN NaN
    ELSE IF IsFin(a) /\ IsFin(b) THEN Fin(a.n * b.n, a.d * b.d)
    ELSE IF Sign(a) * Sign(b) = 0 THEN NaN
    ELSE IF Sign(a) * Sign(b) > 0 THEN Inf
    ELSE NInf

\* a / b for finite operands (IEEE-754: x / 0 is an infinity, 0 / 0 is NaN)
FDiv(a, b) ==
    IF b.n = 0
    THEN IF a.n = 0 THEN NaN ELSE IF a.n > 0 THEN Inf ELSE NInf
    ELSE Fin(a.n * b.d * Sign(b), a.d * Abs(b.n))

\* a >= b (false when either is NaN)
FGe(a, b) ==
    IF a.k = "nan" \/ b.k = "nan" THEN FALSE
    ELSE IF a.k = "inf" \/ b.k = "ninf" THEN TRUE
    ELSE IF a.k = "ninf" \/ b.k = "inf" THEN FALSE
    ELSE a.n * b.d >= b.n * a.d

\* f32::max / f64::max: the other operand when one is NaN
FMax(a, b) ==
    IF a.k = "nan" THEN b
    ELSE IF b.k = "nan" THEN a
    ELSE IF FGe(a, b) THEN a ELSE b


Half == Fin(1, 2)

(***************************************************************************)
(* vizia's BoundingBox {x, y, w, h} and the corner accessors the hit test  *)
(* calls.  The accessors return their components in (vertical, horizontal) *)
(* order; tests::triangle_intersection fixes this order: with (x, y) order *)
(* the expression of intersects_triangle is negative at (20, 20) and the   *)
(* test's assertions fail.                                                 *)
(***************************************************************************)
Box(x, y, w, h) == [x |-> R(x), y |-> R(y), w |-> R(w), h |-> R(h)]

left(b)   == b.x
top(b)    == b.y
right(b)  == FAdd(b.x, b.w)
bottom(b) == FAdd(b.y, b.h)

bottom_left_xy(b) == <<left(b), bottom(b)>>
bottom_left(b) == <<bottom(b), left(b)>>

top_right(b) == <<top(b), right(b)>>

\* the edge test alone, without the ">= 0.0"
wedge(b, p) ==
    LET p1 == bottom_left(b)
        p2 == top_right(b)
        v1x == FSub(p2[1], p1[1])
        v1y == FSub(p2[2], p1[2])
    IN  FSub(FMul(FSub(p[1], p1[1]), v1y), FMul(FSub(p[2], p1[2]), v1x))

intersects_triangle(b, p) == FGe(wedge(b, p), R(0))

\* tests::triangle_intersection
triangle_intersection ==
    LET bbox == Box(10, 10, 10, 10)
    IN  /\ ~intersects_triangle(bbox, <<R(10), R(10)>>)
        /\ intersects_triangle(bbox, <<R(20), R(10)>>)
        /\ intersects_triangle(bbox, <<R(10), R(20)>>)
        /\ intersects_triangle(bbox, <<R(20), R(20)>>)
        /\ intersects_triangle(bbox, <<R(15), R(15)>>)
        /\ ~intersects_triangle(bbox, <<Fin(149, 10), R(15)>>)
        /\ ~intersects_triangle(bbox, <<R(15), Fin(149, 10)>>)

(***************************************************************************)
(* Inputs the host can supply.                                             *)
(***************************************************************************)
Coord == 0 .. MaxCoord
Point == {<<R(x), R(y)>> : x \in Coord, y \in Coord}

\* a square box off the origin and a non-square box at the origin
BoxSet == {Box(1, 1, 2, 2), Box(0, 0, 2, 1)}

ScaleFactors == {R(1), R(2)}

(***************************************************************************)
(* The record of a step.                                                   *)
(***************************************************************************)
\*   kind, x, y      the event handled (x, y: the position it carried or read)
\*   pre_drag        drag_active when the event arrived
\*   after_press     the step before was a left MouseDown that hit while Idle
\*   hit             what intersects_triangle returned, when it was called
\*   cmds            the commands issued to the host context, in order
\*   consumed        meta.consume() was called
\*   relative_scale, new_scale_factor
\*                   the values the handler computed (None: not computed)
Observation(kind, p, hit, cmds, consumed, rel, nsf) ==
    [kind |-> kind, x |-> p[1], y |-> p[2], pre_drag |-> drag_active,
     after_press |-> last.kind = "MouseDown" /\ last.hit /\ ~last.pre_drag,
     hit |-> hit, cmds |-> cmds, consumed |-> consumed,
     relative_scale |-> rel, new_scale_factor |-> nsf]

NoPoint == <<None, None>>

(***************************************************************************)
(* ResizeHandle::new                                                       *)
(***************************************************************************)
new ==
    /\ drag_active = FALSE
    /\ start_scale_factor = R(1)
    /\ start_dpi_factor = R(1)
    /\ start_physical_coordinates = <<R(0), R(0)>>

Init ==
    /\ new
    /\ bounds \in BoxSet
    /\ scale_factor \in ScaleFactors
    /\ captured = FALSE
    /\ active = FALSE
    /\ hover = FALSE
    /\ last = [kind |-> "None", x |-> None, y |-> None, pre_drag |-> FALSE,
               after_press |-> FALSE, hit |-> FALSE, cmds |-> <<>>,
               consumed |-> FALSE, relative_scale |-> None,
               new_scale_factor |-> None]
    /\ canvas = <<>>

(***************************************************************************)
(* ResizeHandle::event, WindowEvent::MouseDown(MouseButton::Left)          *)
(***************************************************************************)
\* (cursor_x * start_dpi_factor, cursor_y * start_dpi_factor)
StartPhysical_logical(c, dpi) == c
StartPhysical(c, dpi) == <<FMul(c[1], dpi), FMul(c[2], dpi)>>

\* cx.capture(); cx.set_active(true);
MouseDownCmds_nocapture == <<"set_active(true)">>
MouseDownCmds == <<"capture", "set_active(true)">>

\* meta.consume() is called in the branch of a hit, and there only
MouseDownConsumed_always(hit) == TRUE
MouseDownConsumed(hit) == hit

\* self.start_scale_factor = cx.scale_factor() as f64 ("user_scale_factor is
\* not available on EventContext. Using scale_factor() as a substitute")
StartScaleFactor_one == R(1)
StartScaleFactor == scale_factor

\* c: the cursor position cx.mouse() reports
MouseDown ==
    \E c \in Point :
        LET hit == intersects_triangle(bounds, c)
        IN  /\ IF hit
               THEN /\ captured' = TRUE
                    /\ active' = TRUE
                    /\ drag_active' = TRUE
                    /\ start_scale_factor' = StartScaleFactor
                    /\ start_dpi_factor' = scale_factor
                    /\ start_physical_coordinates' =
                           StartPhysical(c, start_dpi_factor')
               ELSE UNCHANGED <<captured, active, drag_active,
                                start_scale_factor, start_dpi_factor,
                                start_physical_coordinates>>
            /\ last' = Observation("MouseDown", c, hit,
                                   IF hit THEN MouseDownCmds ELSE <<>>,
                                   MouseDownConsumed(hit), None, None)
            /\ UNCHANGED <<bounds, scale_factor, hover, canvas>>

(***************************************************************************)
(* ResizeHandle::event, WindowEvent::MouseUp(MouseButton::Left)            *)
(***************************************************************************)
\* if self.drag_active
ReleaseCondition_hovered == drag_active /\ hover
ReleaseCondition_always == TRUE
ReleaseCondition == drag_active

\* as if the release cleared the whole drag session
MouseUp_reset ==
    /\ IF ReleaseCondition
       THEN /\ captured' = FALSE
            /\ active' = FALSE
            /\ drag_active' = FALSE
            /\ start_scale_factor' = R(1)
            /\ start_dpi_factor' = R(1)
            /\ start_physical_coordinates' = <<R(0), R(0)>>
       ELSE UNCHANGED <<captured, active, drag_active, start_scale_factor,
                        start_dpi_factor, start_physical_coordinates>>
    /\ last' = Observation("MouseUp", NoPoint, FALSE,
                           IF ReleaseCondition
                           THEN <<"release", "set_active(false)">> ELSE <<>>,
                           FALSE, None, None)
    /\ UNCHANGED <<bounds, scale_factor, hover, canvas>>
MouseUp ==
    /\ IF ReleaseCondition
       THEN /\ captured' = FALSE
            /\ active' = FALSE
            /\ drag_active' = FALSE
       ELSE UNCHANGED <<captured, active, drag_active>>
    /\ last' = Observation("MouseUp", NoPoint, FALSE,
                           IF ReleaseCondition
                           THEN <<"release", "set_active(false)">> ELSE <<>>,
                           FALSE, None, None)
    /\ UNCHANGED <<bounds, scale_factor, hover, start_scale_factor,
                   start_dpi_factor, start_physical_coordinates, canvas>>

(***************************************************************************)
(* ResizeHandle::event, WindowEvent::MouseMove(x, y)                       *)
(***************************************************************************)
\* (compensated_physical_x / start_physical_x)
\*     .max(compensated_physical_y / start_physical_y)
RelativeScale_min(p, dpi, start) ==
    LET rx == FDiv(FMul(p[1], dpi), start[1])
        ry == FDiv(FMul(p[2], dpi), start[2])
    IN  IF FGe(rx, ry) THEN ry ELSE rx
RelativeScale(p, dpi, start) ==
    FMax(FDiv(FMul(p[1], dpi), start[1]), FDiv(FMul(p[2], dpi), start[2]))

\* (self.start_scale_factor * relative scale as f64).max(0.5)
NewScaleFactor_nofloor(ssf, rel) == FMul(ssf, rel)
NewScaleFactor(ssf, rel) == FMax(FMul(ssf, rel), Half)

\* The commands issued for the computed factor: none.  The call
\* cx.set_user_scale_factor(new_scale_factor) is commented out and
\* _new_scale_factor is dropped.
ScaleRequest(nsf) == <<>>

SetHover_inverted(b) ==
    IF b THEN <<"set_hover(false)">> ELSE <<"set_hover(true)">>
SetHover(b) == IF b THEN <<"set_hover(true)">> ELSE <<"set_hover(false)">>

\* the factor that turns (x, y) into physical pixels: self.start_dpi_factor
CompensationFactor_live == scale_factor
CompensationFactor == start_dpi_factor

MouseMove ==
    \E p \in Point :
        LET hit == intersects_triangle(bounds, p)
            rel == RelativeScale(p, CompensationFactor,
                                 start_physical_coordinates)
            nsf == NewScaleFactor(start_scale_factor, rel)
        IN  /\ hover' = hit
            /\ last' = IF drag_active
                       THEN Observation("MouseMove", p, hit,
                                        SetHover(hit) \o ScaleRequest(nsf),
                                        FALSE, rel, nsf)
                       ELSE Observation("MouseMove", p, hit, SetHover(hit),
                                        FALSE, None, None)
            /\ UNCHANGED <<bounds, scale_factor, captured, active, widget,
                           canvas>>

(***************************************************************************)
(* ResizeHandle::event, every other event: `_ => {}`                       *)
(***************************************************************************)
\* as if the arm matched MouseUp(_), a release of any button
OtherEvent_anybutton ==
    /\ IF drag_active
       THEN /\ captured' = FALSE
            /\ active' = FALSE
            /\ drag_active' = FALSE
       ELSE UNCHANGED <<captured, active, drag_active>>
    /\ last' = Observation("Other", NoPoint, FALSE,
                           IF drag_active
                           THEN <<"release", "set_active(false)">> ELSE <<>>,
                           FALSE, None, None)
    /\ UNCHANGED <<bounds, scale_factor, hover, start_scale_factor,
                   start_dpi_factor, start_physical_coordinates, canvas>>
OtherEvent ==
    /\ last' = Observation("Other", NoPoint, FALSE, <<>>, FALSE,
                           None, None)
    /\ UNCHANGED <<bounds, scale_factor, captured, active, hover, widget,
                   canvas>>

(***************************************************************************)
(* The host: a relayout moves or resizes the widget's bounding box, and    *)
(* the window's scale factor changes.                                      *)
(***************************************************************************)
HostStep == Observation("Host", NoPoint, FALSE, <<>>, FALSE, None, None)

HostRelayout ==
    /\ bounds' \in BoxSet \ {bounds}
    /\ last' = HostStep
    /\ UNCHANGED <<scale_factor, captured, active, hover, widget, canvas>>

HostScaleFactor ==
    /\ scale_factor' \in ScaleFactors \ {scale_factor}
    /\ last' = HostStep
    /\ UNCHANGED <<bounds, captured, active, hover, widget, canvas>>

Next ==
    \/ MouseDown
    \/ MouseUp
    \/ MouseMove
    \/ OtherEvent
    \/ HostRelayout
    \/ HostScaleFactor

Spec == Init /\ [][Next]_vars

(***************************************************************************)
(* ResizeHandle::draw.  It takes &self and reads the bounding box and the  *)
(* style attributes from the draw context; the colours and the opacity     *)
(* only set the paints' colours and are left out.  A paint command records *)
(* the path's origin and size, its style and the paint it is drawn with.   *)
(***************************************************************************)
MaxSize == 2
MaxBorder == 2

\* cx.bounds(): boxes with zero and non-zero width and height
DrawBoxSet ==
    {Box(x, y, w, h) : x \in 0 .. 1, y \in 0 .. 1,
                       w \in 0 .. MaxSize, h \in 0 .. MaxSize}

\* cx.border_width()
BorderWidths == {R(i) : i \in 0 .. MaxBorder}

\* if bounds.w == 0.0 || bounds.h == 0.0 { return; }
DrawGuard_both(b) == b.w = R(0) /\ b.h = R(0)
DrawGuard(b) == b.w = R(0) \/ b.h = R(0)

Paint(shape, style, paint, b, bw) ==
    [shape |-> shape, style |-> style, paint |-> paint,
     x |-> FAdd(b.x, FDiv(bw, R(2))), y |-> FAdd(b.y, FDiv(bw, R(2))),
     w |-> FSub(b.w, bw), h |-> FSub(b.h, bw),
     stroke_width |-> IF style = "stroke" THEN bw ELSE R(0)]

\* the three canvas.draw_path calls
DrawCommands(b, bw) ==
    IF DrawGuard(b)
    THEN <<>>
    ELSE <<Paint("rectangle", "fill", "background_color", b, bw),
           Paint("rectangle", "stroke", "border_color", b, bw),
           Paint("triangle", "fill", "font_color", b, bw)>>

Draw ==
    \E bw \in BorderWidths :
        /\ canvas' = DrawCommands(bounds, bw)
        /\ last' = Observation("Draw", NoPoint, FALSE, <<>>, FALSE, None, None)
        /\ UNCHANGED <<bounds, scale_factor, captured, active, hover, widget>>

\* a relayout to any box, a zero-area one included
DrawRelayout ==
    /\ bounds' \in DrawBoxSet \ {bounds}
    /\ last' = HostStep
    /\ UNCHANGED <<scale_factor, captured, active, hover, widget, canvas>>

DrawInit ==
    /\ new
    /\ bounds \in DrawBoxSet
    /\ scale_factor = R(1)
    /\ captured = FALSE
    /\ active = FALSE
    /\ hover = FALSE
    /\ last = [kind |-> "None", x |-> None, y |-> None, pre_drag |-> FALSE,
               after_press |-> FALSE, hit |-> FALSE, cmds |-> <<>>,
               consumed |-> FALSE, relative_scale |-> None,
               new_scale_factor |-> None]
    /\ canvas = <<>>

DrawNext ==
    \/ Draw
    \/ DrawRelayout

\* the render pass: the host lays the widget out and calls draw
DrawSpec == DrawInit /\ [][DrawNext]_vars

(***************************************************************************)
(* Vocabulary of the properties.                                           *)
(***************************************************************************)
LastPoint == <<last.x, last.y>>

\* x <= px <= x + w and y <= py <= y + h
InBox(b, p) ==
    /\ FGe(p[1], b.x) /\ FGe(FAdd(b.x, b.w), p[1])
    /\ FGe(p[2], b.y) /\ FGe(FAdd(b.y, b.h), p[2])

\* (px - x) * h + (py - y) * w >= w * h: on or to the lower right of the
\* hypotenuse from (x, y + h) to (x + w, y)
BeyondHypotenuse(b, p) ==
    FGe(FAdd(FMul(FSub(p[1], b.x), b.h), FMul(FSub(p[2], b.y), b.w)),
        FMul(b.w, b.h))

\* the triangle bottom-left, bottom-right, top-right that draw paints
InVisibleTriangle(b, p) == InBox(b, p) /\ BeyondHypotenuse(b, p)

Count(cmds, c) == Cardinality({i \in DOMAIN cmds : cmds[i] = c})

\* the request for a scale change, cx.set_user_scale_factor(..)
ScaleRequests(cmds) == Count(cmds, "set_user_scale_factor")

PositiveStart ==
    /\ Sign(start_physical_coordinates[1]) > 0
    /\ Sign(start_physical_coordinates[2]) > 0

(***************************************************************************)
(* C1: for every bounding box with w > 0 and h > 0, square or not, and     *)
(* every point inside the box, intersects_triangle returns true exactly    *)
(* when (px-x)*h + (py-y)*w >= w*h; for the box {10,10,10,10}, (10,10) is  *)
(* outside and (20,10), (10,20), (20,20), (15,15) are inside.  Stated of   *)
(* the hover flag a MouseMove sets from the hit test.  The code violates   *)
(* it for a box that is not square.                                        *)
(***************************************************************************)
C1_HitTestInsideBox ==
    /\ (last.kind = "MouseMove" /\ InBox(bounds, LastPoint))
           => (hover <=> BeyondHypotenuse(bounds, LastPoint))
    /\ LET bbox == Box(10, 10, 10, 10)
       IN  /\ ~intersects_triangle(bbox, <<R(10), R(10)>>)
           /\ intersects_triangle(bbox, <<R(20), R(10)>>)
           /\ intersects_triangle(bbox, <<R(10), R(20)>>)
           /\ intersects_triangle(bbox, <<R(20), R(20)>>)
           /\ intersects_triangle(bbox, <<R(15), R(15)>>)

(***************************************************************************)
(* C2: for every bounding box and every point, inside the box or not,      *)
(* intersects_triangle returns true if and only if the point lies within   *)
(* the visible triangle, so that neither the hover flag of a MouseMove nor *)
(* the hit of a MouseDown is ever set by a point outside the box.  The     *)
(* code tests the hypotenuse alone and violates it.                        *)
(***************************************************************************)
C2_HitTestIsVisibleTriangle ==
    /\ last.kind = "MouseMove"
           => (hover <=> InVisibleTriangle(bounds, LastPoint))
    /\ last.kind = "MouseDown"
           => (last.hit <=> InVisibleTriangle(bounds, LastPoint))

(***************************************************************************)
(* C3: a left MouseDown in Idle whose cursor position passes the hit test  *)
(* starts the drag in that step: capture and set_active(true) are issued,  *)
(* drag_active is true, start_scale_factor and start_dpi_factor are the    *)
(* host's scale factor, start_physical_coordinates is the cursor position  *)
(* times start_dpi_factor, and the event is consumed.                      *)
(***************************************************************************)
C3_MouseDownHitStartsDrag ==
    (/\ last.kind = "MouseDown"
     /\ ~last.pre_drag
     /\ intersects_triangle(bounds, LastPoint))
        => /\ last.cmds = <<"capture", "set_active(true)">>
           /\ captured
           /\ active
           /\ drag_active
           /\ start_scale_factor = scale_factor
           /\ start_dpi_factor = scale_factor
           /\ start_physical_coordinates =
                  <<FMul(last.x, start_dpi_factor),
                    FMul(last.y, start_dpi_factor)>>
           /\ last.consumed

\* a press at a position with both coordinates non-zero under a scale
\* factor of 2 has started a drag
C3_Witness ==
    /\ last.kind = "MouseDown"
    /\ ~last.pre_drag
    /\ intersects_triangle(bounds, LastPoint)
    /\ drag_active
    /\ scale_factor = R(2)
    /\ start_physical_coordinates = <<R(4), R(6)>>

(***************************************************************************)
(* C4: a left MouseDown whose cursor position fails the hit test changes   *)
(* no field of the widget, issues no command and is not consumed.          *)
(***************************************************************************)
C4_MouseDownMissChangesNothing ==
    [][(/\ last'.kind = "MouseDown"
        /\ ~intersects_triangle(bounds, <<last'.x, last'.y>>))
           => /\ UNCHANGED <<drag_active, start_scale_factor,
                             start_dpi_factor, start_physical_coordinates>>
              /\ UNCHANGED <<captured, active>>
              /\ last'.cmds = <<>>
              /\ ~last'.consumed]_vars

\* a press inside the bounding box and outside the triangle, in Idle
C4_Witness ==
    /\ last.kind = "MouseDown"
    /\ InBox(bounds, LastPoint)
    /\ ~intersects_triangle(bounds, LastPoint)
    /\ ~last.consumed
    /\ ~drag_active

(***************************************************************************)
(* C5: a left MouseUp in Dragging returns the widget to Idle wherever the  *)
(* pointer is: release and set_active(false) are issued and drag_active is *)
(* false; after any left MouseUp the widget is Idle.                       *)
(***************************************************************************)
C5_MouseUpEndsDrag ==
    last.kind = "MouseUp"
        => /\ ~drag_active
           /\ last.pre_drag
                  => /\ last.cmds = <<"release", "set_active(false)">>
                     /\ ~captured
                     /\ ~active

\* a drag released while the pointer was outside the triangle
C5_Witness ==
    /\ last.kind = "MouseUp"
    /\ last.pre_drag
    /\ ~hover
    /\ ~drag_active

(***************************************************************************)
(* C6: a left MouseDown that hits the triangle in Idle, immediately        *)
(* followed by a left MouseUp, issues exactly one capture and exactly one  *)
(* release, the capture first, issues no scale-change request, and leaves  *)
(* the widget Idle.                                                        *)
(***************************************************************************)
C6_PressReleasePair ==
    [][(/\ last.kind = "MouseDown"
        /\ ~last.pre_drag
        /\ intersects_triangle(bounds, LastPoint)
        /\ last'.kind = "MouseUp")
           => LET cmds == last.cmds \o last'.cmds
              IN  /\ Count(cmds, "capture") = 1
                  /\ Count(cmds, "release") = 1
                  /\ \E i, j \in DOMAIN cmds :
                         i < j /\ cmds[i] = "capture" /\ cmds[j] = "release"
                  /\ ScaleRequests(cmds) = 0
                  /\ ~drag_active']_vars

\* the release that directly followed a hitting press in Idle
C6_Witness ==
    /\ last.kind = "MouseUp"
    /\ last.after_press
    /\ last.pre_drag
    /\ Count(last.cmds, "release") = 1
    /\ ~drag_active

(***************************************************************************)
(* C7: a left MouseUp in Idle is a no-op: no command is issued and no      *)
(* field of the widget changes.                                            *)
(***************************************************************************)
C7_MouseUpIdleNoOp ==
    [][(last'.kind = "MouseUp" /\ ~drag_active)
           => /\ last'.cmds = <<>>
              /\ ~last'.consumed
              /\ UNCHANGED <<drag_active, start_scale_factor,
                             start_dpi_factor, start_physical_coordinates>>
              /\ UNCHANGED <<captured, active, hover>>]_vars

\* a release in Idle, after an earlier drag has set the start values
C7_Witness ==
    /\ last.kind = "MouseUp"
    /\ ~last.pre_drag
    /\ last.cmds = <<>>
    /\ PositiveStart

(***************************************************************************)
(* C8: every MouseMove in Dragging (with positive start coordinates)       *)
(* issues exactly one scale-change request to the host context; a          *)
(* MouseMove in Idle issues none.  The code issues none in either state.   *)
(***************************************************************************)
C8_MoveWhileDraggingRequestsScale ==
    last.kind = "MouseMove"
        => /\ (last.pre_drag /\ PositiveStart)
                  => ScaleRequests(last.cmds) = 1
           /\ ~last.pre_drag => ScaleRequests(last.cmds) = 0

(***************************************************************************)
(* C9: a MouseMove in Dragging with a start coordinate that is zero or     *)
(* negative skips the update: nothing is divided by the start coordinate   *)
(* (no relative scale and no new scale factor is computed), no scale       *)
(* request is issued, and drag_active stays true.  The code has no such    *)
(* guard and divides by the zero start coordinate.                         *)
(***************************************************************************)
C9_ZeroStartGuard ==
    (last.kind = "MouseMove" /\ last.pre_drag /\ ~PositiveStart)
        => /\ last.relative_scale = None
           /\ last.new_scale_factor = None
           /\ ScaleRequests(last.cmds) = 0
           /\ drag_active

(***************************************************************************)
(* C10: on a MouseMove at (x, y) in Dragging with positive start           *)
(* coordinates the relative scale is the larger of                         *)
(* (x * start_dpi_factor) / start_physical_x and                           *)
(* (y * start_dpi_factor) / start_physical_y: their common value when they *)
(* are equal, never the smaller one and never a value between them.        *)
(***************************************************************************)
RatioX == FDiv(FMul(last.x, start_dpi_factor), start_physical_coordinates[1])
RatioY == FDiv(FMul(last.y, start_dpi_factor), start_physical_coordinates[2])

C10_DominantAxis ==
    (last.kind = "MouseMove" /\ last.pre_drag /\ PositiveStart)
        => /\ RatioX = RatioY => last.relative_scale = RatioX
           /\ (RatioX # RatioY /\ FGe(RatioX, RatioY))
                  => last.relative_scale = RatioX
           /\ (RatioX # RatioY /\ FGe(RatioY, RatioX))
                  => last.relative_scale = RatioY

\* a move whose vertical ratio is the larger one
C10_Witness ==
    /\ last.kind = "MouseMove"
    /\ last.pre_drag
    /\ PositiveStart
    /\ RatioX # RatioY
    /\ FGe(RatioY, RatioX)
    /\ last.relative_scale = RatioY

(***************************************************************************)
(* C11: the scale factor computed on a MouseMove in Dragging is            *)
(* start_scale_factor * relative scale floored at 0.5: a candidate below   *)
(* 0.5 gives exactly 0.5, a candidate at or above 0.5 is kept as it is     *)
(* (there is no upper bound), and the result is never below 0.5.           *)
(***************************************************************************)
Candidate == FMul(start_scale_factor, last.relative_scale)

C11_FloorAtHalf ==
    (last.kind = "MouseMove" /\ last.pre_drag)
        => /\ FGe(last.new_scale_factor, Half)
           /\ (Candidate.k # "nan" /\ ~FGe(Candidate, Half))
                  => last.new_scale_factor = Half
           /\ FGe(Candidate, Half) => last.new_scale_factor = Candidate

\* a move towards the origin whose candidate, 1/3, is below 0.5
C11_Witness ==
    /\ last.kind = "MouseMove"
    /\ last.pre_drag
    /\ PositiveStart
    /\ Candidate = Fin(1, 3)
    /\ last.new_scale_factor = Half

(***************************************************************************)
(* C12: every MouseMove(x, y), in Idle and in Dragging, sets the hover     *)
(* flag to the hit test of (x, y) against the current bounding box; in     *)
(* Idle it changes no field of the widget, issues no capture, release or   *)
(* set_active, and a second MouseMove at the same position leaves the      *)
(* hover flag as the first one set it.                                     *)
(***************************************************************************)
C12_HoverUpdate ==
    [][last'.kind = "MouseMove"
           => /\ hover' = intersects_triangle(bounds, <<last'.x, last'.y>>)
              /\ last'.cmds[1] = IF hover' THEN "set_hover(true)"
                                           ELSE "set_hover(false)"
              /\ ~drag_active
                     => /\ last'.cmds = <<last'.cmds[1]>>
                        /\ UNCHANGED <<drag_active, start_scale_factor,
                                       start_dpi_factor,
                                       start_physical_coordinates>>
                        /\ UNCHANGED <<captured, active>>
              /\ (/\ ~drag_active
                  /\ last.kind = "MouseMove"
                  /\ <<last'.x, last'.y>> = LastPoint)
                     => hover' = hover]_vars

\* a MouseMove in Idle, after an earlier drag, to a point outside the triangle
C12_Witness ==
    /\ last.kind = "MouseMove"
    /\ ~last.pre_drag
    /\ ~hover
    /\ last.cmds = <<"set_hover(false)">>
    /\ PositiveStart

(***************************************************************************)
(* C13: in every reachable state with drag_active true both components of  *)
(* start_physical_coordinates are strictly positive, whatever bounding     *)
(* box, cursor position and scale factor the host supplied at the press.   *)
(* The code records a zero coordinate as it is.                            *)
(***************************************************************************)
C13_StartPositiveWhileDragging == drag_active => PositiveStart

(***************************************************************************)
(* C14: the scale computed on a MouseMove in Dragging uses the DPI factor  *)
(* recorded at the start of the drag and not the host's current scale      *)
(* factor: for a given pointer position it is the same whether or not the  *)
(* host's factor has changed since the press.                              *)
(***************************************************************************)
C14_FrozenDpiFactor ==
    (last.kind = "MouseMove" /\ last.pre_drag)
        => /\ last.relative_scale = FMax(RatioX, RatioY)
           /\ last.new_scale_factor =
                  FMax(FMul(start_scale_factor, FMax(RatioX, RatioY)), Half)

\* a move after the host's factor changed in mid-drag, at a position where
\* the host's current factor would give another relative scale
C14_Witness ==
    /\ last.kind = "MouseMove"
    /\ last.pre_drag
    /\ PositiveStart
    /\ scale_factor # start_dpi_factor
    /\ last.relative_scale #
           FMax(FDiv(FMul(last.x, scale_factor),
                     start_physical_coordinates[1]),
                FDiv(FMul(last.y, scale_factor),
                     start_physical_coordinates[2]))

(***************************************************************************)
(* C15: an event other than a left MouseDown, a left MouseUp and a         *)
(* MouseMove is ignored in Idle and in Dragging: no field of the widget    *)
(* and no host flag changes, no command is issued and the event is not     *)
(* consumed.                                                               *)
(***************************************************************************)
C15_OtherEventsIgnored ==
    [][last'.kind = "Other"
           => /\ UNCHANGED <<drag_active, start_scale_factor,
                             start_dpi_factor, start_physical_coordinates>>
              /\ UNCHANGED <<captured, active, hover>>
              /\ last'.cmds = <<>>
              /\ ~last'.consumed]_vars

\* another event arrived in mid-drag and the drag goes on
C15_Witness ==
    /\ last.kind = "Other"
    /\ last.pre_drag
    /\ drag_active
    /\ captured

(***************************************************************************)
(* C16: for every bounding box and every border width, whatever draw       *)
(* paints has a strictly positive width bounds.w - border_width and a      *)
(* strictly positive height bounds.h - border_width.  The code returns     *)
(* early only for a bounding box of zero width or height, and paints a     *)
(* shape of zero or negative size when the border is as wide as the box.   *)
(***************************************************************************)
C16_NoEmptyShape ==
    last.kind = "Draw"
        => \A i \in DOMAIN canvas :
               Sign(canvas[i].w) > 0 /\ Sign(canvas[i].h) > 0

(***************************************************************************)
(* C17: draw paints nothing when the bounding box has width 0 or height 0; *)
(* otherwise it issues exactly three paint commands: the background fill,  *)
(* the border stroke and the triangle fill, in this order.                 *)
(***************************************************************************)
C17_DrawNoOpOrThree ==
    last.kind = "Draw"
        => IF bounds.w = R(0) \/ bounds.h = R(0)
           THEN canvas = <<>>
           ELSE /\ Len(canvas) = 3
                /\ canvas[1].shape = "rectangle"
                /\ canvas[1].style = "fill"
                /\ canvas[1].paint = "background_color"
                /\ canvas[2].shape = "rectangle"
                /\ canvas[2].style = "stroke"
                /\ canvas[2].paint = "border_color"
                /\ canvas[3].shape = "triangle"
                /\ canvas[3].style = "fill"
                /\ canvas[3].paint = "font_color"

\* a draw call on a box of zero width and non-zero height
C17_Witness ==
    /\ last.kind = "Draw"
    /\ bounds.w = R(0)
    /\ bounds.h # R(0)
    /\ canvas = <<>>

(***************************************************************************)
(* C18: after any sequence of events on a freshly constructed widget the   *)
(* pointer is captured and the active flag is set exactly when drag_active *)
(* is true, and release and set_active(false) are issued only by an event  *)
(* that arrived in Dragging, that is, after a capture.                     *)
(***************************************************************************)
C18_CaptureIffDragging ==
    /\ captured <=> drag_active
    /\ active <=> drag_active
    /\ \A i \in DOMAIN last.cmds :
           last.cmds[i] \in {"release", "set_active(false)"} => last.pre_drag

\* a drag has ended: released, not active, Idle
C18_Witness ==
    /\ last.kind = "MouseUp"
    /\ last.pre_drag
    /\ "release" \in {last.cmds[i] : i \in DOMAIN last.cmds}
    /\ ~captured
    /\ ~active
    /\ ~drag_active

(***************************************************************************)
(* C19: start_scale_factor, start_dpi_factor and                           *)
(* start_physical_coordinates are written only by a left MouseDown that    *)
(* hits the triangle: every other step leaves the three unchanged, so they *)
(* keep the values of the most recent hitting press during the drag and    *)
(* after its end.                                                          *)
(***************************************************************************)
C19_StartWrittenOnlyByHit ==
    [][~(/\ last'.kind = "MouseDown"
         /\ intersects_triangle(bounds, <<last'.x, last'.y>>))
           => UNCHANGED <<start_scale_factor, start_dpi_factor,
                          start_physical_coordinates>>]_vars

\* the drag has ended and the start values are still those of its press
C19_Witness ==
    /\ last.kind = "MouseUp"
    /\ last.pre_drag
    /\ ~drag_active
    /\ start_scale_factor = R(2)
    /\ start_dpi_factor = R(2)
    /\ PositiveStart

(***************************************************************************)
(* C20: start_scale_factor equals start_dpi_factor in every reachable      *)
(* state, so the scale computed on a move is                               *)
(* max(start_dpi_factor * max(x * start_dpi_factor / start_physical_x,     *)
(* y * start_dpi_factor / start_physical_y), 0.5).                         *)
(***************************************************************************)
C20_StartFactorsEqual ==
    /\ start_scale_factor = start_dpi_factor
    /\ (last.kind = "MouseMove" /\ last.pre_drag)
           => last.new_scale_factor =
                  FMax(FMul(start_dpi_factor, FMax(RatioX, RatioY)), Half)

\* a move in a drag started under a scale factor of 2
C20_Witness ==
    /\ last.kind = "MouseMove"
    /\ last.pre_drag
    /\ PositiveStart
    /\ start_scale_factor = R(2)
    /\ start_dpi_factor = R(2)
    /\ FGe(last.new_scale_factor, R(2))

=============================================================================
